---- MODULE Spec2Model ----
(***************************************************************************)
(* Gradient-descent step/animation engine of src/main.js.                  *)
(*                                                                         *)
(* State: gdState (currentB, history, isRunning) and the suspended async   *)
(* calls of stepGradientDescent / runGradientDescent, each of which is     *)
(* parked on exactly one setTimeout(stepDuration) inside                   *)
(* animateGradientDescentStep.  All timers have the same delay, so they    *)
(* fire in the order in which they were armed: "tasks" is that FIFO.       *)
(* One action is one browser macrotask: a click/input handler up to its    *)
(* first await, or a timer callback together with the promise              *)
(* continuations it releases, up to the next await.                        *)
(*                                                                         *)
(* Numbers: JavaScript doubles are modelled as fixed-point decimals with   *)
(* Scale units per 1; every product and quotient is rounded to the         *)
(* nearest unit.  The DOM (slider element, charts, iteration table) is a   *)
(* sink written by the handlers and never read back into gdState except    *)
(* through the user inputs modelled here.                                  *)
(*                                                                         *)
(* Spec is the gradient-descent panel.  CalcSpec applies the numeric       *)
(* functions (metrics, an uninterrupted run, the ticks of one animation)   *)
(* to inputs drawn from bounded sets.  PracticeSpec is the practice panel  *)
(* with its random datasets.                                               *)
(***************************************************************************)
EXTENDS Integers, Sequences, FiniteSets, TLC

\* ------------------------------------------------------------------------
\* Bounds of the model
\* ------------------------------------------------------------------------
MaxEvents == 2          \* user events (clicks, slider inputs) per behaviour
MaxIterations == 2      \* largest value typed into the "iterations" field
MaxPoints == 3          \* largest dataset given to the metric functions
MaxRunLength == 15      \* longest uninterrupted run that is evaluated

\* ------------------------------------------------------------------------
\* Fixed-point arithmetic
\* ------------------------------------------------------------------------
\* units per 1: three decimal places
Scale == 10 ^ 3

\* a / b for b > 0, rounded to the nearest integer, halves away from zero
RoundDiv(a, b) ==
    IF a < 0 THEN -((2 * (-a) + b) \div (2 * b))
             ELSE (2 * a + b) \div (2 * b)

\* product of two fixed-point numbers
Mul(a, b) == RoundDiv(a * b, Scale)

\* ------------------------------------------------------------------------
\* Data (main.js 11-17) and metric functions (main.js 65-90)
\* ------------------------------------------------------------------------
mainData == << [x |-> 2000, y |-> 2500], [x |-> 7000, y |-> 6500] >>

RECURSIVE SumSeq(_)
SumSeq(s) == IF s = << >> THEN 0 ELSE Head(s) + SumSeq(Tail(s))

\* variant that returns the sum of the squared errors, not their mean
computeMSENotAveraged(points, b) ==
    LET residuals == [k \in 1..Len(points) |-> points[k].y - b]
        squaredErrors == [k \in 1..Len(points) |-> Mul(residuals[k], residuals[k])]
    IN  SumSeq(squaredErrors)

\* main.js 65-70
computeMSE(points, b) ==
    LET residuals == [k \in 1..Len(points) |-> points[k].y - b]
        squaredErrors == [k \in 1..Len(points) |-> Mul(residuals[k], residuals[k])]
    IN  RoundDiv(SumSeq(squaredErrors), Len(points))

\* variant without the minus sign of the factor
computeMSEDerivativeUnsigned(points, b) ==
    LET residuals == [k \in 1..Len(points) |-> points[k].y - b]
        sumResiduals == SumSeq(residuals)
    IN  Mul(RoundDiv(2 * Scale, Len(points)), sumResiduals)

\* main.js 76-81
computeMSEDerivative(points, b) ==
    LET residuals == [k \in 1..Len(points) |-> points[k].y - b]
        sumResiduals == SumSeq(residuals)
    IN  Mul(-RoundDiv(2 * Scale, Len(points)), sumResiduals)

\* variant that divides the sum by one more than the number of points
computeOptimalBOffByOne(points) ==
    LET yValues == [k \in 1..Len(points) |-> points[k].y]
    IN  RoundDiv(SumSeq(yValues), Len(yValues) + 1)

\* main.js 86-90
computeOptimalB(points) ==
    LET yValues == [k \in 1..Len(points) |-> points[k].y]
    IN  RoundDiv(SumSeq(yValues), Len(yValues))

\* ------------------------------------------------------------------------
\* parseInt of the text of the "iterations" field (main.js 732)
\* ------------------------------------------------------------------------
Digits == <<"0", "1", "2", "3", "4", "5", "6", "7", "8", "9">>

IsDigit(c) == \E d \in 1..10 : Digits[d] = c

DigitValue(c) == (CHOOSE d \in 1..10 : Digits[d] = c) - 1

\* value of the longest prefix of digits of s, starting from acc;
\* seen tells whether a digit has been read
RECURSIVE ParseDigits(_, _, _)
ParseDigits(s, acc, seen) ==
    IF s # << >> /\ IsDigit(Head(s))
    THEN ParseDigits(Tail(s), 10 * acc + DigitValue(Head(s)), TRUE)
    ELSE [nan |-> ~seen, val |-> IF seen THEN acc ELSE 0]

parseInt(s) ==
    IF s # << >> /\ Head(s) = "-"
    THEN LET p == ParseDigits(Tail(s), 0, FALSE)
         IN  [nan |-> p.nan, val |-> -p.val]
    ELSE ParseDigits(s, 0, FALSE)

\* texts the user may leave in the "iterations" field
IterationTexts ==
    { << >>, <<"-", "1">>, <<"1", ".", "5">> }
        \cup { <<Digits[n + 1]>> : n \in 0..MaxIterations }

\* values of the "learning-rate" field (0.2)
LearningRates == {200}

\* values the user may drag the intercept slider to (4.5, where the
\* gradient of the main dataset is 0)
SliderValues == {4500}

\* values Math.random() may return, in [0, 1)
RandomUnits == {0, 999}

\* ------------------------------------------------------------------------
\* Animation constants (main.js 672-674)
\* ------------------------------------------------------------------------
duration == 400
steps == 20
stepDuration == duration \div steps

\* ------------------------------------------------------------------------
\* State
\* ------------------------------------------------------------------------
VARIABLES
    currentB,       \* gdState.currentB
    history,        \* gdState.history: sequence of [iteration, b, mse, gradient]
    isRunning,      \* gdState.isRunning
    tasks,          \* suspended async calls, in the order their timers fire
    events,         \* number of user events handled so far
    lastOp,         \* which handler path ran in the last macrotask
    animsStarted,   \* calls of animateGradientDescentStep so far
    onDoneCalls,    \* calls of an onDone callback so far
    practiceData,   \* practiceData: [points, optimalB]
    practiceView,   \* last generatePracticeDataset argument, displayed MSE
    calc            \* a call of the numeric functions: inputs, then outputs

vars == <<currentB, history, isRunning, tasks, events, lastOp,
          animsStarted, onDoneCalls, practiceData, practiceView, calc>>

\* variants of the loop test that stop one body early / one body late
AnimLoopCondShort(i) == i < steps
AnimLoopCondLong(i) == i <= steps + 1

\* for (let i = 1; i <= steps; i++)  (main.js 676)
AnimLoopCond(i) == i <= steps

\* variant that leaves the run loop one iteration early
RunLoopCondShort(i, iterations) == ~iterations.nan /\ i + 1 < iterations.val

\* for (let i = 0; i < iterations; i++)  (main.js 738); i < NaN is false
RunLoopCond(i, iterations) == ~iterations.nan /\ i < iterations.val

\* variant without the re-entrancy guard
RunGuardOff(running) == FALSE

\* if (gdState.isRunning) return;  (main.js 728)
RunGuard(running) == running

\* progress = i / steps; easeProgress = 1 - Math.pow(1 - progress, 3)
\* (main.js 678-679), for every value of the loop variable.  The factor is
\* kept as the numerator of the fraction 1 - ((steps - i) / steps)^3 over
\* easeDenominator: it is far finer than the resolution of the b values.
easeDenominator == steps * steps * steps

easeProgress ==
    [i \in 1..(steps + 1) |->
        easeDenominator - (steps - i) * (steps - i) * (steps - i)]

\* variant whose easing factor is Math.pow(1 - progress, 3), without "1 -"
TickValueNoComplement(oldB, newB, i) ==
    oldB + RoundDiv((newB - oldB) * (easeDenominator - easeProgress[i]),
                    easeDenominator)

\* interpolated b of tick i  (main.js 682), rounded to the resolution of b
TickValue(oldB, newB, i) ==
    oldB + RoundDiv((newB - oldB) * easeProgress[i], easeDenominator)

\* variant in which the loop body computes the value but does not store it
TickWriteSkipped(cur, interpolated) == cur

\* gdState.currentB = currentB in the loop body  (main.js 685)
TickWrite(cur, interpolated) == interpolated

\* variant without the final assignment: currentB stays what it was
SnapValueKept(newB, cur) == cur

\* gdState.currentB = newB after the loop  (main.js 694)
SnapValue(newB, cur) == newB

\* variant that forgets the offset
RandomBNoOffset(r) == Mul(r, 20 * Scale)

\* Math.random() * 20 - 10  (main.js 615)
RandomB(r) == Mul(r, 20 * Scale) - 10 * Scale

\* variant that leaves the flag set
IsRunningStuck == TRUE

\* gdState.isRunning = false at the end of the run  (main.js 760)
IsRunningAfterRun == FALSE

\* variant that clamps the learning rate to 0.1
StepFromClamped(b, learningRate) ==
    LET gradient == computeMSEDerivative(mainData, b)
        clamped == IF learningRate > 100 THEN 100 ELSE learningRate
    IN  [newB |-> b - Mul(clamped, gradient),
         gradient |-> gradient,
         mse |-> computeMSE(mainData, b)]

\* one optimizer step at b  (main.js 705-708, 739-742)
StepFrom(b, learningRate) ==
    LET gradient == computeMSEDerivative(mainData, b)
    IN  [newB |-> b - Mul(learningRate, gradient),
         gradient |-> gradient,
         mse |-> computeMSE(mainData, b)]

HistoryEntry(iteration, b, st) ==
    [iteration |-> iteration, b |-> b, mse |-> st.mse, gradient |-> st.gradient]

\* frame of an async call suspended in animateGradientDescentStep:
\* i is the loop variable of the animation, ticks the number of loop bodies
\* executed by this animation, iter the loop variable of the run
Frame(kind, oldB, newB, i, ticks, learningRate, iterations, iter) ==
    [kind |-> kind, oldB |-> oldB, newB |-> newB, i |-> i, ticks |-> ticks,
     learningRate |-> learningRate, iterations |-> iterations, iter |-> iter]

NoIterations == [nan |-> TRUE, val |-> 0]

\* ------------------------------------------------------------------------
\* Practice datasets (main.js 97-138)
\* ------------------------------------------------------------------------
\* a double that may be NaN
Number(v) == [nan |-> FALSE, val |-> v]
NaN == [nan |-> TRUE, val |-> 0]

\* countMin and countMax of a difficulty (main.js 98-107)
CountRange(difficulty) ==
    IF difficulty = "easy" THEN [countMin |-> 2, countMax |-> 2]
    ELSE IF difficulty = "hard" THEN [countMin |-> 5, countMax |-> 8]
    ELSE [countMin |-> 3, countMax |-> 4]

\* variant that forgets to add countMin
NumPointsNoMin(r, countMin, countMax) ==
    (r * (countMax - countMin + 1)) \div Scale

\* Math.floor(Math.random() * (countMax - countMin + 1)) + countMin
\* (main.js 109), r the value of Math.random()
NumPoints(r, countMin, countMax) ==
    (r * (countMax - countMin + 1)) \div Scale + countMin

\* 1 + Math.random() * 9  (main.js 114)
RegularY == { Scale + 9 * r : r \in RandomUnits }

\* 12 + Math.random() * 8  (main.js 118), reached only in hard mode when
\* Math.random() < 0.2, and only by the last point (main.js 117)
OutlierY(difficulty) ==
    IF difficulty = "hard" /\ \E r \in RandomUnits : 5 * r < Scale
    THEN { 12 * Scale + 8 * r : r \in RandomUnits }
    ELSE {}

\* the y values a dataset of n points may be given by the loop
\* (main.js 112-122)
YSequences(n, difficulty) ==
    IF n = 0 THEN { << >> }
    ELSE { Append(front, last) :
             front \in [1..(n - 1) -> RegularY],
             last \in RegularY \cup OutlierY(difficulty) }

\* points.push({ x, y }) with x = i + 1  (main.js 113, 121)
PointsOf(ys) == [k \in 1..Len(ys) |-> [x |-> k * Scale, y |-> ys[k]]]

\* computeOptimalB / computeMSE of a dataset that may be empty: 0 / 0 is NaN
OptimalBOf(points) ==
    IF Len(points) = 0 THEN NaN ELSE Number(computeOptimalB(points))

MSEOf(points, b) ==
    IF Len(points) = 0 \/ b.nan THEN NaN ELSE Number(computeMSE(points, b.val))

\* every dataset generatePracticeDataset(difficulty) may return
generatePracticeDataset(difficulty) ==
    LET range == CountRange(difficulty)
        counts == { NumPoints(r, range.countMin, range.countMax) :
                      r \in RandomUnits }
    IN  { [points |-> PointsOf(ys), optimalB |-> OptimalBOf(PointsOf(ys))] :
            ys \in UNION { YSequences(n, difficulty) : n \in counts } }

\* values of the "practice-difficulty" select; "" is no selection and
\* "expert" a value the generator does not know
DifficultyValues == {"easy", "medium", "hard", "", "expert"}

\* document.getElementById('practice-difficulty').value || 'medium'
\* (main.js 631)
DifficultyOrDefault(value) == IF value = "" THEN "medium" ELSE value

\* the practice slider is put to 3 with every new dataset (main.js 633)
practiceSliderReset == 3 * Scale

\* positions the user may drag the practice slider to (0 and 7.25)
PracticeSliderValues == {0, 7250}

\* optimalB.toFixed(2) read back by parseFloat (main.js 641, 587)
ToFixed2(v) == 10 * RoundDiv(v, 10)

\* what updatePracticeDisplay shows for slider value b (main.js 586-592)
PracticeViewOf(difficulty, data, b) ==
    [difficulty |-> difficulty, mse |-> MSEOf(data.points, b)]

\* the dataset initializeApp is taken to have drawn while the gradient
\* descent panel is explored; PracticeSpec starts from every possible draw
practiceDataAtStart ==
    CHOOSE d \in generatePracticeDataset("medium") : TRUE

\* ------------------------------------------------------------------------
\* Inputs of the numeric functions
\* ------------------------------------------------------------------------
YValues == {1000, 2500, 6500}

\* the main dataset and every dataset of 1..MaxPoints points over YValues
Datasets ==
    {mainData} \cup
    { PointsOf(ys) : ys \in UNION { [1..n -> YValues] : n \in 1..MaxPoints } }

\* distance of the probed b from computeOptimalB(D)
Offsets == {-1000, -50, -1, 0, 1, 50, 1000}

\* start values, learning rates strictly between 0 and 1
DescentStarts == {-7000, 3000, 4501, 9000}
DescentRates == {1, 200, 500, 999}

\* end points of an animation
TickEnds == {-7000, 3000, 3001, 3600, 5000}

NoCalc == [kind |-> "none", stage |-> "idle"]

CalcInputs ==
    { [kind |-> "metrics", stage |-> "input", points |-> D, offset |-> o] :
        D \in Datasets, o \in Offsets }
    \cup
    { [kind |-> "descent", stage |-> "input", startB |-> b,
       learningRate |-> lr, iterations |-> n] :
        b \in DescentStarts, lr \in DescentRates, n \in 1..MaxRunLength }
    \cup
    { [kind |-> "ticks", stage |-> "input", oldB |-> p[1], newB |-> p[2]] :
        p \in { q \in TickEnds \X TickEnds : q[1] < q[2] } }

\* variant that steps up the gradient
FinalBAscending(b, learningRate, n) ==
    LET RECURSIVE Go(_, _)
        Go(cur, k) ==
            IF k = 0 THEN cur
            ELSE Go(cur + Mul(learningRate, computeMSEDerivative(mainData, cur)),
                    k - 1)
    IN  Go(b, n)

\* gdState.currentB after the n iterations of a run started at b, every
\* animation having landed on its newB (main.js 738-757, 694)
FinalB(b, learningRate, n) ==
    LET RECURSIVE Go(_, _)
        Go(cur, k) ==
            IF k = 0 THEN cur
            ELSE Go(StepFrom(cur, learningRate).newB, k - 1)
    IN  Go(b, n)

\* the values written by the loop bodies of one animation (main.js 676-685)
TickValues(oldB, newB) ==
    [i \in 1..steps |-> TickWrite(oldB, TickValue(oldB, newB, i))]

\* ------------------------------------------------------------------------
\* Initial states
\* ------------------------------------------------------------------------
\* gdState as constructed (main.js 46-50), no timer armed
InitGd ==
    /\ currentB = 3 * Scale
    /\ history = << >>
    /\ isRunning = FALSE
    /\ tasks = << >>
    /\ events = 0
    /\ lastOp = "init"
    /\ animsStarted = 0
    /\ onDoneCalls = 0

\* setPracticeDataset(generatePracticeDataset('medium')) and
\* updatePracticeDisplay() of initializeApp (main.js 149, 159) for draw d
InitPractice(d) ==
    /\ practiceData = d
    /\ practiceView = PracticeViewOf("medium", d, Number(practiceSliderReset))

Init ==
    /\ InitGd
    /\ InitPractice(practiceDataAtStart)
    /\ calc = NoCalc

\* ------------------------------------------------------------------------
\* animateGradientDescentStep entered from a handler with gdState.history
\* already updated and gdState.currentB = cur: runs the first loop body
\* (steps >= 1) and suspends on its timer (main.js 671-690).  rest are the
\* timers armed before.
\* ------------------------------------------------------------------------
EnterAnimation(rest, cur, kind, oldB, newB, learningRate, iterations, iter) ==
    /\ currentB' = TickWrite(cur, TickValue(oldB, newB, 1))
    /\ tasks' = Append(rest, Frame(kind, oldB, newB, 1, 1,
                                   learningRate, iterations, iter))

\* ------------------------------------------------------------------------
\* Slider input (main.js 603-606)
\* ------------------------------------------------------------------------
SliderInput ==
    /\ events < MaxEvents
    /\ \E v \in SliderValues : currentB' = v
    /\ events' = events + 1
    /\ lastOp' = "slider"
    /\ UNCHANGED <<history, isRunning, tasks, animsStarted, onDoneCalls>>
    /\ UNCHANGED <<practiceData, practiceView, calc>>

\* ------------------------------------------------------------------------
\* Randomize click (main.js 614-621)
\* ------------------------------------------------------------------------
RandomizeClick ==
    /\ events < MaxEvents
    /\ \E r \in RandomUnits : currentB' = RandomB(r)
    /\ history' = << >>
    /\ events' = events + 1
    /\ lastOp' = "randomize"
    /\ UNCHANGED <<isRunning, tasks, animsStarted, onDoneCalls>>
    /\ UNCHANGED <<practiceData, practiceView, calc>>

\* ------------------------------------------------------------------------
\* Step Once click (main.js 702-725), up to the first timer
\* ------------------------------------------------------------------------
StepClick ==
    /\ events < MaxEvents
    /\ \E learningRate \in LearningRates :
         LET st == StepFrom(currentB, learningRate)
             iteration == Len(history)
         IN  /\ history' = Append(history, HistoryEntry(iteration, currentB, st))
             /\ EnterAnimation(tasks, currentB, "step", currentB, st.newB,
                               learningRate, NoIterations, 0)
    /\ animsStarted' = animsStarted + 1
    /\ events' = events + 1
    /\ lastOp' = "step"
    /\ UNCHANGED <<isRunning, onDoneCalls>>
    /\ UNCHANGED <<practiceData, practiceView, calc>>

\* ------------------------------------------------------------------------
\* Run click (main.js 727-761), up to the first timer
\* ------------------------------------------------------------------------
RunClick ==
    /\ events < MaxEvents
    /\ events' = events + 1
    /\ UNCHANGED <<practiceData, practiceView, calc>>
    /\ IF RunGuard(isRunning)
       THEN /\ lastOp' = "runIgnored"
            /\ UNCHANGED <<currentB, history, isRunning, tasks,
                           animsStarted, onDoneCalls>>
       ELSE \E learningRate \in LearningRates, text \in IterationTexts :
              LET iterations == parseInt(text)
              IN  IF RunLoopCond(0, iterations)
                  THEN LET st == StepFrom(currentB, learningRate)
                       IN  /\ isRunning' = TRUE
                           /\ history' = << HistoryEntry(0, currentB, st) >>
                           /\ EnterAnimation(tasks, currentB, "run", currentB, st.newB,
                                             learningRate, iterations, 0)
                           /\ animsStarted' = animsStarted + 1
                           /\ lastOp' = "runStart"
                           /\ UNCHANGED onDoneCalls
                  ELSE /\ isRunning' = IsRunningAfterRun
                       /\ history' = << >>
                       /\ lastOp' = "runEmpty"
                       /\ UNCHANGED <<currentB, tasks, animsStarted, onDoneCalls>>

\* ------------------------------------------------------------------------
\* The oldest timer fires: the animation at the head of the queue resumes
\* after its await (main.js 690), and with it, when the animation returns,
\* the step or run that awaits it (main.js 722-725, 755-760).
\* ------------------------------------------------------------------------
\* the head animation runs its next loop body (main.js 676-690)
AnimationTick ==
    /\ tasks # << >>
    /\ AnimLoopCond(Head(tasks).i + 1)
    /\ LET h == Head(tasks)
           i == h.i + 1
       IN  /\ currentB' = TickWrite(currentB, TickValue(h.oldB, h.newB, i))
           /\ tasks' = Append(Tail(tasks), [h EXCEPT !.i = i, !.ticks = @ + 1])
    /\ lastOp' = "tick"
    /\ UNCHANGED <<history, isRunning, animsStarted, onDoneCalls, events>>
    /\ UNCHANGED <<practiceData, practiceView, calc>>

\* the head animation leaves its loop, snaps to newB and calls onDone
\* (main.js 693-699); the Step Once that awaited it returns (main.js 722-725)
StepReturns ==
    /\ tasks # << >>
    /\ ~AnimLoopCond(Head(tasks).i + 1)
    /\ Head(tasks).kind = "step"
    /\ currentB' = SnapValue(Head(tasks).newB, currentB)
    /\ tasks' = Tail(tasks)
    /\ onDoneCalls' = onDoneCalls + 1
    /\ lastOp' = "stepDone"
    /\ UNCHANGED <<history, isRunning, animsStarted, events>>
    /\ UNCHANGED <<practiceData, practiceView, calc>>

\* the same for an animation of the run, whose loop goes on with the next
\* iteration up to the first timer of its animation (main.js 738-757)
RunContinues ==
    /\ tasks # << >>
    /\ ~AnimLoopCond(Head(tasks).i + 1)
    /\ Head(tasks).kind = "run"
    /\ RunLoopCond(Head(tasks).iter + 1, Head(tasks).iterations)
    /\ LET h == Head(tasks)
           snapped == SnapValue(h.newB, currentB)
           iter == h.iter + 1
           st == StepFrom(snapped, h.learningRate)
       IN  /\ history' = Append(history, HistoryEntry(iter, snapped, st))
           /\ EnterAnimation(Tail(tasks), snapped, "run", snapped, st.newB,
                             h.learningRate, h.iterations, iter)
    /\ onDoneCalls' = onDoneCalls + 1
    /\ animsStarted' = animsStarted + 1
    /\ lastOp' = "runNext"
    /\ UNCHANGED <<isRunning, events>>
    /\ UNCHANGED <<practiceData, practiceView, calc>>

\* the same for the last animation of the run, which then returns
\* (main.js 758-761)
RunReturns ==
    /\ tasks # << >>
    /\ ~AnimLoopCond(Head(tasks).i + 1)
    /\ Head(tasks).kind = "run"
    /\ ~RunLoopCond(Head(tasks).iter + 1, Head(tasks).iterations)
    /\ currentB' = SnapValue(Head(tasks).newB, currentB)
    /\ isRunning' = IsRunningAfterRun
    /\ tasks' = Tail(tasks)
    /\ onDoneCalls' = onDoneCalls + 1
    /\ lastOp' = "runDone"
    /\ UNCHANGED <<history, animsStarted, events>>
    /\ UNCHANGED <<practiceData, practiceView, calc>>

TimerFires ==
    \/ AnimationTick
    \/ StepReturns
    \/ RunContinues
    \/ RunReturns

Next ==
    \/ SliderInput
    \/ RandomizeClick
    \/ StepClick
    \/ RunClick
    \/ TimerFires

Spec == Init /\ [][Next]_vars

\* every armed timer eventually fires
FairSpec == Spec /\ WF_vars(TimerFires)

gdVars == <<currentB, history, isRunning, tasks, events, lastOp,
            animsStarted, onDoneCalls>>

\* ------------------------------------------------------------------------
\* The numeric functions applied to their inputs
\* ------------------------------------------------------------------------
\* computeOptimalB, computeMSE and computeMSEDerivative (main.js 65-90) at
\* optimalB and at b1 = optimalB + offset
EvaluateMetrics ==
    /\ calc.kind = "metrics"
    /\ calc.stage = "input"
    /\ LET optimalB == computeOptimalB(calc.points)
           b1 == optimalB + calc.offset
       IN  calc' = [calc EXCEPT !.stage = "done"] @@
                   [optimalB |-> optimalB,
                    b1 |-> b1,
                    mseAtOptimal |-> computeMSE(calc.points, optimalB),
                    mseAtB1 |-> computeMSE(calc.points, b1),
                    derivativeAtOptimal |-> computeMSEDerivative(calc.points, optimalB),
                    derivativeAtB1 |-> computeMSEDerivative(calc.points, b1)]
    /\ UNCHANGED <<gdVars, practiceData, practiceView>>

\* a run of calc.iterations iterations that nothing interrupts
\* (main.js 738-757)
RunUninterrupted ==
    /\ calc.kind = "descent"
    /\ calc.stage = "input"
    /\ calc' = [calc EXCEPT !.stage = "done"] @@
               [finalB |-> FinalB(calc.startB, calc.learningRate, calc.iterations)]
    /\ UNCHANGED <<gdVars, practiceData, practiceView>>

\* the loop of one animation from calc.oldB to calc.newB (main.js 676-691)
AnimateUninterrupted ==
    /\ calc.kind = "ticks"
    /\ calc.stage = "input"
    /\ calc' = [calc EXCEPT !.stage = "done"] @@
               [ticks |-> TickValues(calc.oldB, calc.newB)]
    /\ UNCHANGED <<gdVars, practiceData, practiceView>>

CalcInit ==
    /\ InitGd
    /\ InitPractice(practiceDataAtStart)
    /\ calc \in CalcInputs

CalcNext ==
    \/ EvaluateMetrics
    \/ RunUninterrupted
    \/ AnimateUninterrupted

CalcSpec == CalcInit /\ [][CalcNext]_vars

\* ------------------------------------------------------------------------
\* The practice panel (main.js 586-599, 608-611, 629-645)
\* ------------------------------------------------------------------------
\* New Dataset click (main.js 630-637)
NewPracticeClick ==
    /\ \E value \in DifficultyValues :
         LET difficulty == DifficultyOrDefault(value)
         IN  \E d \in generatePracticeDataset(difficulty) :
               /\ practiceData' = d
               /\ practiceView' =
                    PracticeViewOf(difficulty, d, Number(practiceSliderReset))
    /\ UNCHANGED <<gdVars, calc>>

\* practice slider input (main.js 609-611)
PracticeSliderInput ==
    /\ \E v \in PracticeSliderValues :
         practiceView' =
            PracticeViewOf(practiceView.difficulty, practiceData, Number(v))
    /\ UNCHANGED <<gdVars, calc, practiceData>>

\* Reveal Solution click (main.js 640-645)
RevealSolutionClick ==
    /\ practiceView' =
         PracticeViewOf(practiceView.difficulty, practiceData,
                        IF practiceData.optimalB.nan THEN NaN
                        ELSE Number(ToFixed2(practiceData.optimalB.val)))
    /\ UNCHANGED <<gdVars, calc, practiceData>>

PracticeInit ==
    /\ InitGd
    /\ \E d \in generatePracticeDataset("medium") : InitPractice(d)
    /\ calc = NoCalc

PracticeNext ==
    \/ NewPracticeClick
    \/ PracticeSliderInput
    \/ RevealSolutionClick

PracticeSpec == PracticeInit /\ [][PracticeNext]_vars

TypeOK ==
    /\ currentB \in Int
    /\ isRunning \in BOOLEAN
    /\ events \in 0..MaxEvents
    /\ \A k \in 1..Len(tasks) : tasks[k].kind \in {"step", "run"}

\* ========================================================================
\* Properties
\* ========================================================================
Last(s) == s[Len(s)]

RunFrames(ts) == { ts[k] : k \in { j \in 1..Len(ts) : ts[j].kind = "run" } }

RunWasClicked(op) == op \in {"runIgnored", "runStart", "runEmpty"}

\* ------------------------------------------------------------------------
\* C1: a Run click that arrives while gdState.isRunning is true changes
\* neither history, currentB nor isRunning, starts no animation and arms no
\* timer; hence at most one run loop is suspended in any reachable state.
\* ------------------------------------------------------------------------
AtMostOneRunLoop ==
    Cardinality({ k \in 1..Len(tasks) : tasks[k].kind = "run" }) <= 1

RunReentryNoOp ==
    /\ [](AtMostOneRunLoop)
    /\ [][ (isRunning /\ events' = events + 1 /\ RunWasClicked(lastOp'))
             => UNCHANGED <<currentB, history, isRunning, tasks,
                            animsStarted, onDoneCalls>> ]_vars

RunReentryWitness ==
    /\ lastOp = "runIgnored"
    /\ isRunning
    /\ RunFrames(tasks) # {}

\* ------------------------------------------------------------------------
\* C2: at most one call of animateGradientDescentStep is in progress
\* (started and not completed) in every reachable state.
\* ------------------------------------------------------------------------
NoOverlappingAnimations == Len(tasks) <= 1

\* ------------------------------------------------------------------------
\* C3: the run loop advances from iteration k to k + 1 only in the
\* macrotask in which the animation of iteration k has executed all its
\* loop bodies (steps of them) and the final assignment of newB; the step
\* of iteration k + 1 is computed from that newB.
\* ------------------------------------------------------------------------
RunIterationsSequential ==
    [][ \A f \in RunFrames(tasks), g \in RunFrames(tasks') :
          /\ g.iter \in {f.iter, f.iter + 1}
          /\ g.iter = f.iter + 1 =>
               /\ f = Head(tasks)
               /\ f.i = steps
               /\ f.ticks = steps
               /\ onDoneCalls' = onDoneCalls + 1
               /\ g.oldB = f.newB
               /\ g.ticks = 1
               /\ Last(history').b = f.newB ]_vars

RunIterationsSequentialWitness ==
    /\ lastOp = "runNext"
    /\ Len(tasks) = 1
    /\ Head(tasks).iter = 1
    /\ Len(history) = 2
    /\ history[2].b = Head(tasks).oldB

\* ------------------------------------------------------------------------
\* C4: in the macrotask in which a run with iteration count N finishes
\* (isRunning goes from true to false), history.length = N, whatever user
\* events occurred while the run was in progress.
\* ------------------------------------------------------------------------
HistoryLengthAfterRun ==
    [][ (isRunning /\ ~isRunning' /\ tasks # << >>)
          => Len(history') = Head(tasks).iterations.val ]_vars

\* ------------------------------------------------------------------------
\* C5: the entry at position k (0-based) of history has iteration = k.
\* ------------------------------------------------------------------------
HistoryIterationIsPosition ==
    \A k \in 1..Len(history) : history[k].iteration = k - 1

\* ------------------------------------------------------------------------
\* C6 (as stated): while a step or a run iteration is animating from oldB,
\* gdState.currentB still holds oldB.
\* ------------------------------------------------------------------------
CurrentBKeptUntilCompletion ==
    \A k \in 1..Len(tasks) : currentB = tasks[k].oldB

\* ------------------------------------------------------------------------
\* C6 (amended): every loop body of an animation stores its interpolated
\* value in gdState.currentB (the first one in the macrotask of the step
\* computation), and the macrotask in which an animation completes without
\* a further run iteration leaves currentB = newB.
\* ------------------------------------------------------------------------
CurrentBFollowsTicks ==
    [][ /\ (tasks' # tasks /\ tasks' # << >> /\ Len(tasks') >= Len(tasks))
           => currentB' = TickValue(Last(tasks').oldB, Last(tasks').newB,
                                    Last(tasks').i)
        /\ (tasks # << >> /\ tasks' = Tail(tasks))
           => currentB' = Head(tasks).newB ]_vars

CurrentBFollowsTicksWitness ==
    /\ lastOp = "tick"
    /\ Len(tasks) = 1
    /\ Head(tasks).i = 10
    /\ currentB # Head(tasks).oldB
    /\ currentB # Head(tasks).newB

\* ------------------------------------------------------------------------
\* C7: one animation executes exactly steps loop bodies, for i = 1, 2, ...,
\* steps in this order, and then calls onDone exactly once, in the macrotask
\* after the last loop body and in no other.
\* ------------------------------------------------------------------------
AnimatorCallbackCounts ==
    /\ [](/\ \A k \in 1..Len(tasks) :
               /\ tasks[k].i \in 1..steps
               /\ tasks[k].ticks = tasks[k].i
          /\ onDoneCalls + Len(tasks) = animsStarted)
    /\ [][ /\ onDoneCalls' \in {onDoneCalls, onDoneCalls + 1}
           /\ onDoneCalls' = onDoneCalls + 1
                => (tasks # << >> /\ Head(tasks).ticks = steps)
           /\ (lastOp' = "tick" /\ tasks # << >>)
                => /\ onDoneCalls' = onDoneCalls
                   /\ Last(tasks').i = Head(tasks).i + 1
                   /\ Last(tasks').ticks = Head(tasks).ticks + 1 ]_vars

AnimatorCallbackCountsWitness ==
    /\ lastOp = "stepDone"
    /\ animsStarted = 1
    /\ onDoneCalls = 1
    /\ tasks = << >>

\* ------------------------------------------------------------------------
\* C8: when an animation towards newB completes, gdState.currentB is newB
\* exactly: it is the value left in currentB when nothing follows in the
\* same macrotask, and the value the next run iteration reads otherwise.
\* ------------------------------------------------------------------------
AnimationLandsOnTarget ==
    [][ (onDoneCalls' = onDoneCalls + 1 /\ tasks # << >>)
          => IF tasks' = Tail(tasks)
             THEN currentB' = Head(tasks).newB
             ELSE /\ Last(tasks').oldB = Head(tasks).newB
                  /\ Last(history').b = Head(tasks).newB ]_vars

AnimationLandsOnTargetWitness ==
    /\ lastOp = "stepDone"
    /\ Len(history) = 1
    /\ history[1].b = 3 * Scale
    /\ currentB = history[1].b - Mul(200, history[1].gradient)
    /\ currentB = 3600

\* ------------------------------------------------------------------------
\* C9: isRunning is true exactly in the states in which a run loop is
\* suspended; a run whose loop does not execute leaves isRunning false; and
\* if every armed timer eventually fires, every run ends with isRunning
\* false.
\* ------------------------------------------------------------------------
RunLifecycle ==
    /\ [](isRunning <=> RunFrames(tasks) # {})
    /\ [](lastOp = "runEmpty" => ~isRunning)
    /\ (isRunning ~> ~isRunning)

RunLifecycleWitness ==
    /\ lastOp = "runDone"
    /\ ~isRunning
    /\ Len(history) = 2
    /\ tasks = << >>

\* ------------------------------------------------------------------------
\* C10: a Randomize click leaves currentB in [-10, 10] and history empty,
\* starts no animation, arms no timer and does not change isRunning.
\* ------------------------------------------------------------------------
RandomizeEffect ==
    [][ (lastOp' = "randomize" /\ events' = events + 1)
          => /\ currentB' >= -10 * Scale
             /\ currentB' <= 10 * Scale
             /\ history' = << >>
             /\ UNCHANGED <<isRunning, tasks, animsStarted, onDoneCalls>> ]_vars

RandomizeEffectWitness ==
    /\ lastOp = "randomize"
    /\ isRunning
    /\ tasks # << >>
    /\ history = << >>

\* ------------------------------------------------------------------------
\* C11: every step computation (Step Once, and each iteration of a run)
\* reads b = gdState.currentB, appends the entry [b, mse(D, b),
\* mseDerivative(D, b)] taken at that b, and animates towards
\* newB = b - learningRate * mseDerivative(D, b), with nothing clamped.
\* ------------------------------------------------------------------------
StepComputation ==
    [][ animsStarted' = animsStarted + 1
          => /\ history' # << >>
             /\ tasks' # << >>
             /\ LET e == Last(history')
                    f == Last(tasks')
                    read == IF events' = events THEN Head(tasks).newB
                                                ELSE currentB
                IN  /\ e.b = read
                    /\ e.mse = computeMSE(mainData, read)
                    /\ e.gradient = computeMSEDerivative(mainData, read)
                    /\ f.oldB = read
                    /\ f.newB = read - Mul(f.learningRate, e.gradient) ]_vars

StepComputationWitness ==
    /\ lastOp = "step"
    /\ Len(history) = 1
    /\ history[1].b = 3 * Scale
    /\ history[1].gradient = -3 * Scale
    /\ Len(tasks) = 1
    /\ Head(tasks).newB = 3600

\* ------------------------------------------------------------------------
\* C12: a run with iteration count N >= 1 returns to idle only after its
\* loop has gone through the iterations 0 .. N - 1, each with a complete
\* animation, also when the gradient is 0 from the start.
\* ------------------------------------------------------------------------
NoEarlyTermination ==
    /\ [](\A f \in RunFrames(tasks) :
            f.iter >= 0 /\ f.iter < f.iterations.val)
    /\ [][ /\ \A f \in RunFrames(tasks), g \in RunFrames(tasks') :
                g.iter \in {f.iter, f.iter + 1}
           /\ (isRunning /\ ~isRunning' /\ tasks # << >>)
                => /\ Head(tasks).kind = "run"
                   /\ Head(tasks).iterations.val >= 1
                   /\ Head(tasks).iter + 1 = Head(tasks).iterations.val
                   /\ Head(tasks).ticks = steps ]_vars

NoEarlyTerminationWitness ==
    /\ lastOp = "runDone"
    /\ Len(history) = 2
    /\ history[1].gradient = 0
    /\ history[2].gradient = 0
    /\ animsStarted = 2
    /\ onDoneCalls = 2

\* ------------------------------------------------------------------------
\* C13: the history entry of an iteration is recorded only after the
\* animation of that iteration has completed, so history never holds more
\* entries than animations have completed.
\* ------------------------------------------------------------------------
HistoryRecordedAfterAnimation == Len(history) <= onDoneCalls

\* ------------------------------------------------------------------------
\* C19: after a slider input that arrives while an animation is suspended,
\* the next timer callback overwrites gdState.currentB with a value that
\* depends on oldB and newB of the animation only; when it is the callback
\* that completes the animation the value is newB, which is also what the
\* next iteration of a run starts from.
\* ------------------------------------------------------------------------
SliderLosesRace ==
    [][ (lastOp = "slider" /\ tasks # << >> /\ events' = events)
          => LET h == Head(tasks)
             IN  IF h.i < steps
                 THEN currentB' = TickValue(h.oldB, h.newB, h.i + 1)
                 ELSE IF tasks' = Tail(tasks)
                 THEN currentB' = h.newB
                 ELSE /\ Last(tasks').oldB = h.newB
                      /\ Last(history').b = h.newB
                      /\ currentB' = TickValue(h.newB, Last(tasks').newB, 1) ]_vars

SliderLosesRaceWitness ==
    /\ lastOp = "slider"
    /\ isRunning
    /\ Len(tasks) = 1
    /\ Head(tasks).i = steps
    /\ currentB # Head(tasks).newB

\* ------------------------------------------------------------------------
\* Properties of the numeric functions (CalcSpec)
\* ------------------------------------------------------------------------
Abs(v) == IF v < 0 THEN -v ELSE v

Evaluated(kind) == calc.kind = kind /\ calc.stage = "done"

DistanceToOptimum(b) == Abs(b - computeOptimalB(mainData))

PracticeYValues == [k \in 1..Len(practiceData.points) |-> practiceData.points[k].y]

====
